---- MODULE Spec2Model ----
(***************************************************************************)
(* State-machine model of libcore's NativeDecimalFormat JNI binding        *)
(* (luni/src/main/native/libcore_icu_NativeDecimalFormat.cpp).             *)
(*                                                                         *)
(* Text is modelled as sequences of UTF-16 code units (integers).  The     *)
(* native heap maps addresses to DecimalFormat instances; the Java caller  *)
(* keeps the addresses it was given in `held`.  Every native method is one *)
(* action; the outcome of the last call (return value, pending exception,  *)
(* callbacks made on the caller's ParsePosition and FieldPositionIterator) *)
(* is kept in the state so that properties of a call can be stated.        *)
(*                                                                         *)
(* The formatting/parsing engine itself (ICU's DecimalFormat and unum API) *)
(* is not part of the source file; Engine operators model it from the      *)
(* specification document.                                                 *)
(***************************************************************************)
EXTENDS Integers, Sequences, FiniteSets, TLC

VARIABLES heap, held, call, exc, ret, pos, fpi, eng

vars == <<heap, held, call, exc, ret, pos, fpi, eng>>

(* ---------------------------------------------------------------------- *)
(* Bounds                                                                  *)
(* ---------------------------------------------------------------------- *)

\* number of native addresses the allocator can hand out
MaxAddr == 3
\* longest text enumerated over the parse alphabet
MaxLen == 3

Addrs == 1..MaxAddr
Refs == {1, 2}

\* a null jstring / jobject
NullStr == [null |-> TRUE]
JStr(s) == [null |-> FALSE, chars |-> s]

(* ---------------------------------------------------------------------- *)
(* UnicodeString construction                                              *)
(* ---------------------------------------------------------------------- *)

\* UnicodeString(UChar ch): one code unit
UnicodeStringOfUChar(ch) == <<ch>>

\* UnicodeString(UChar32 ch): the code point, as one unit or a surrogate pair
UnicodeStringOfUChar32(c) ==
    IF c < 65536 THEN <<c>>
    ELSE <<55296 + ((c - 65536) \div 1024), 56320 + ((c - 65536) % 1024)>>

\* the code point a UnicodeString starts with (UnicodeString::char32At(0))
Char32At0(s) ==
    IF Len(s) >= 2 /\ s[1] >= 55296 /\ s[1] < 56320 /\ s[2] >= 56320 /\ s[2] < 57344
    THEN 65536 + (s[1] - 55296) * 1024 + (s[2] - 56320)
    ELSE s[1]

\* number of code points of a UnicodeString holding one glyph
OneCodePoint(s) ==
    \/ Len(s) = 1
    \/ /\ Len(s) = 2
       /\ s[1] >= 55296 /\ s[1] < 56320 /\ s[2] >= 56320 /\ s[2] < 57344

(* ---------------------------------------------------------------------- *)
(* Symbols                                                                 *)
(* ---------------------------------------------------------------------- *)

DigitSlots ==
    <<"kZeroDigitSymbol", "kOneDigitSymbol", "kTwoDigitSymbol", "kThreeDigitSymbol",
      "kFourDigitSymbol", "kFiveDigitSymbol", "kSixDigitSymbol", "kSevenDigitSymbol",
      "kEightDigitSymbol", "kNineDigitSymbol">>

\* the slot of digit k, k in 0..9
DigitSlot(k) == DigitSlots[k + 1]

\* slots makeDecimalFormatSymbols assigns
AssignedSlots ==
    {"kCurrencySymbol", "kDecimalSeparatorSymbol", "kDigitSymbol", "kExponentialSymbol",
     "kGroupingSeparatorSymbol", "kMonetaryGroupingSeparatorSymbol", "kInfinitySymbol",
     "kIntlCurrencySymbol", "kMinusSignSymbol", "kMonetarySeparatorSymbol", "kNaNSymbol",
     "kPatternSeparatorSymbol", "kPercentSymbol", "kPerMillSymbol"}
    \cup {DigitSlots[i] : i \in 1..10}

\* slots of the symbol table the binding never assigns
OtherSlots == {"kPlusSignSymbol", "kPadEscapeSymbol", "kSignificantDigitSymbol"}

SymbolIds == AssignedSlots \cup OtherSlots

\* new DecimalFormatSymbols: every slot holds the engine's last-resort value
NewDecimalFormatSymbols ==
    [s \in SymbolIds |->
        CASE s = "kPlusSignSymbol" -> <<43>>
          [] s = "kPadEscapeSymbol" -> <<42>>
          [] s = "kSignificantDigitSymbol" -> <<64>>
          [] OTHER -> <<63>>]

\* DecimalFormatSymbols::setSymbol(slot, value)
SymSet(tab, slot, value) == [tab EXCEPT ![slot] = value]

\* the code point stored for digit k: zeroDigit + k, widened to int
DigitCodePointWrapped(zeroDigit, k) == (zeroDigit + k) % 65536
DigitCodePoint(zeroDigit, k) == zeroDigit + k

RECURSIVE SetDigits(_, _, _)
SetDigits(tab, zeroDigit, k) ==
    IF k > 9 THEN tab
    ELSE SetDigits(SymSet(tab, DigitSlot(k),
                          UnicodeStringOfUChar32(DigitCodePoint(zeroDigit, k))),
                   zeroDigit, k + 1)

makeDecimalFormatSymbols(a) ==
    LET r0  == NewDecimalFormatSymbols
        r1  == SymSet(r0, "kCurrencySymbol", a.currencySymbol)
        r2  == SymSet(r1, "kDecimalSeparatorSymbol", UnicodeStringOfUChar(a.decimalSeparator))
        r3  == SymSet(r2, "kDigitSymbol", UnicodeStringOfUChar(a.digit))
        r4  == SymSet(r3, "kExponentialSymbol", a.exponentSeparator)
        r5  == SymSet(r4, "kGroupingSeparatorSymbol", UnicodeStringOfUChar(a.groupingSeparator))
        r6  == SymSet(r5, "kMonetaryGroupingSeparatorSymbol",
                      UnicodeStringOfUChar(a.groupingSeparator))
        r7  == SymSet(r6, "kInfinitySymbol", a.infinity)
        r8  == SymSet(r7, "kIntlCurrencySymbol", a.internationalCurrencySymbol)
        r9  == SymSet(r8, "kMinusSignSymbol", a.minusSign)
        r10 == SymSet(r9, "kMonetarySeparatorSymbol",
                      UnicodeStringOfUChar(a.monetaryDecimalSeparator))
        r11 == SymSet(r10, "kNaNSymbol", a.nan)
        r12 == SymSet(r11, "kPatternSeparatorSymbol", UnicodeStringOfUChar(a.patternSeparator))
        r13 == SymSet(r12, "kPercentSymbol", a.percent)
        r14 == SymSet(r13, "kPerMillSymbol", UnicodeStringOfUChar(a.perMill))
    IN  SetDigits(r14, a.zeroDigit, 0)

\* the symbol sets a caller passes: a Latin one and one whose digits start at U+FFFA
LatinSymbols ==
    [currencySymbol |-> <<36>>, decimalSeparator |-> 46, digit |-> 35,
     exponentSeparator |-> <<69>>, groupingSeparator |-> 44, infinity |-> <<8734>>,
     internationalCurrencySymbol |-> <<85, 83, 68>>, minusSign |-> <<45>>,
     monetaryDecimalSeparator |-> 46, nan |-> <<78, 97, 78>>, patternSeparator |-> 59,
     percent |-> <<37>>, perMill |-> 8240, zeroDigit |-> 48]

HighSymbols ==
    [LatinSymbols EXCEPT !.zeroDigit = 65530, !.decimalSeparator = 44,
                         !.groupingSeparator = 46, !.monetaryDecimalSeparator = 44]

SymbolArgs == {LatinSymbols, HighSymbols}

(* ---------------------------------------------------------------------- *)
(* Engine: pattern compilation (PatternCompiler of the specification)     *)
(* ---------------------------------------------------------------------- *)

\* class of a pattern character: canonical ASCII, or the instance's glyphs
\* when the pattern is localized
PatClass(ch, syms, localized) ==
    IF ch = 39 THEN "quote"
    ELSE IF (IF localized THEN <<ch>> = syms["kZeroDigitSymbol"] ELSE ch = 48) THEN "zero"
    ELSE IF (IF localized THEN <<ch>> = syms["kDigitSymbol"] ELSE ch = 35) THEN "digit"
    ELSE IF (IF localized THEN <<ch>> = syms["kGroupingSeparatorSymbol"] ELSE ch = 44)
         THEN "group"
    ELSE IF (IF localized THEN <<ch>> = syms["kDecimalSeparatorSymbol"] ELSE ch = 46)
         THEN "dec"
    ELSE IF (IF localized THEN <<ch>> = syms["kPatternSeparatorSymbol"] ELSE ch = 59)
         THEN "sep"
    ELSE "lit"

\* the smallest member of a non-empty set of integers
SetMin(S) == CHOOSE x \in S : \A y \in S : x <= y
SetMax(S) == CHOOSE x \in S : \A y \in S : x >= y

\* compile(patternText, localized): [status, rules]
EngineCompile(pattern, syms, localized) ==
    LET cls(i)  == PatClass(pattern[i], syms, localized)
        n       == Len(pattern)
        seps    == {i \in 1..n : cls(i) = "sep"}
        quotes  == {i \in 1..n : cls(i) = "quote"}
        posEnd  == IF seps = {} THEN n ELSE SetMin(seps) - 1
        decs    == {i \in 1..posEnd : cls(i) = "dec"}
        pats    == {i \in 1..posEnd : cls(i) \in {"zero", "digit", "group", "dec"}}
        first   == IF pats = {} THEN posEnd + 1 ELSE SetMin(pats)
        intEnd  == IF decs = {} THEN posEnd ELSE SetMin(decs) - 1
        groups  == {i \in first..intEnd : cls(i) = "group"}
        negFrom == posEnd + 2
        negPats == {i \in negFrom..n : cls(i) \in {"zero", "digit", "group", "dec"}}
        negLit  == IF negPats = {} THEN n ELSE SetMin(negPats) - 1
        bad     == \/ Cardinality(seps) > 1
                   \/ Cardinality(decs) > 1
                   \/ Cardinality(quotes) % 2 = 1
    IN  IF bad
        THEN [status |-> "U_PATTERN_SYNTAX_ERROR", rules |-> [positivePrefix |-> <<>>]]
        ELSE [status |-> "U_ZERO_ERROR",
              rules |->
                [positivePrefix |-> SubSeq(pattern, 1, first - 1),
                 negativePrefix |->
                    IF seps = {} THEN syms["kMinusSignSymbol"] \o SubSeq(pattern, 1, first - 1)
                    ELSE SubSeq(pattern, negFrom, negLit),
                 minIntegerDigits |-> Cardinality({i \in first..intEnd : cls(i) = "zero"}),
                 minFractionDigits |->
                    Cardinality({i \in (intEnd + 2)..posEnd : cls(i) = "zero"}),
                 maxFractionDigits |->
                    Cardinality({i \in (intEnd + 2)..posEnd : cls(i) \in {"zero", "digit"}}),
                 useGrouping |-> groups # {},
                 groupingSize |-> IF groups = {} THEN 0 ELSE intEnd - SetMax(groups)]]

\* rules of an instance whose construction failed before a pattern was applied
DefaultRules ==
    [positivePrefix |-> <<>>, negativePrefix |-> <<45>>, minIntegerDigits |-> 1,
     minFractionDigits |-> 0, maxFractionDigits |-> 0, useGrouping |-> FALSE,
     groupingSize |-> 0]

\* "#,##0", "0.0#", "0.0.0" (two decimal separators: malformed)
PatGrouped == <<35, 44, 35, 35, 48>>
PatFraction == <<48, 46, 48, 35>>
PatMalformed == <<48, 46, 48, 46, 48>>

(* ---------------------------------------------------------------------- *)
(* Instances and the native heap                                           *)
(* ---------------------------------------------------------------------- *)

FreeCell == [live |-> FALSE]

\* DecimalFormat(pattern, symbolsToAdopt, parseError, status): the object is
\* constructed whatever the status; a failed compile leaves default rules
EngineNewDecimalFormat(pattern, symbols) ==
    LET c == EngineCompile(pattern, symbols, FALSE)
    IN  [status |-> c.status,
         inst |-> [live |-> TRUE, symbols |-> symbols,
                   rules |-> IF c.status = "U_ZERO_ERROR" THEN c.rules ELSE DefaultRules,
                   roundingMode |-> 4, roundingIncrement |-> 0]]

FreeAddrs == {a \in Addrs : ~heap[a].live}

\* the address `new` returns: addresses are interchangeable, so the allocator
\* is modelled as handing out the lowest free one
NewAddr == SetMin(FreeAddrs)

\* addresses of live instances no caller reference holds
Leaked == {a \in Addrs : heap[a].live /\ \A r \in Refs : held[r] # a}

\* the caller's next unused reference: references are interchangeable names
FreshRef(r) == held[r] = 0 /\ \A x \in Refs : held[x] = 0 => r <= x

\* no call is in progress: the caller has taken the previous call's outcome
Idle == call.op = "none"

\* the caller's reference r holds a usable instance
Live(r) == held[r] # 0 /\ heap[held[r]].live

\* maybeThrowIcuException: an exception is raised exactly for a failure status
maybeThrowIcuException(status) == status # "U_ZERO_ERROR"
ExcOf(status) == IF maybeThrowIcuException(status) THEN status ELSE "none"

NoCallbacks == <<>>
NoEng == [k |-> "none"]

Init ==
    /\ heap = [a \in Addrs |-> FreeCell]
    /\ held = [r \in Refs |-> 0]
    /\ call = [op |-> "none", ref |-> 0]
    /\ exc = "none"
    /\ ret = [kind |-> "void"]
    /\ pos = NoCallbacks
    /\ fpi = NoCallbacks
    /\ eng = NoEng

\* the native method returns: the caller takes the outcome and may call again
ReturnToCaller ==
    /\ ~Idle
    /\ call' = [op |-> "none", ref |-> 0]
    /\ exc' = "none" /\ ret' = [kind |-> "void"]
    /\ pos' = NoCallbacks /\ fpi' = NoCallbacks /\ eng' = NoEng
    /\ UNCHANGED <<heap, held>>

(* ---------------------------------------------------------------------- *)
(* open / close / clone                                                    *)
(* ---------------------------------------------------------------------- *)

\* what NativeDecimalFormat_open returns for a constructed object at addr
OpenReturn(addr, status) == addr

\* NativeDecimalFormat_open; `new` yields NULL when the heap is exhausted
NativeDecimalFormat_open(r, pattern0, a) ==
    /\ Idle /\ FreshRef(r)
    /\ call' = [op |-> "open", ref |-> r, pattern |-> pattern0, symbols |-> a]
    /\ pos' = NoCallbacks /\ fpi' = NoCallbacks
    /\ IF pattern0.null
       THEN /\ exc' = "NullPointerException"
            /\ ret' = [kind |-> "handle", addr |-> 0]
            /\ eng' = [k |-> "open", alloc |-> 0]
            /\ UNCHANGED <<heap, held>>
       ELSE IF FreeAddrs = {}
       THEN /\ exc' = "none"
            /\ ret' = [kind |-> "handle", addr |-> 0]
            /\ eng' = [k |-> "open", alloc |-> 0]
            /\ UNCHANGED <<heap, held>>
       ELSE LET addr == NewAddr IN
            LET symbols == makeDecimalFormatSymbols(a)
                c == EngineNewDecimalFormat(pattern0.chars, symbols)
                result == OpenReturn(addr, c.status)
            IN  /\ heap' = [heap EXCEPT ![addr] = c.inst]
                /\ exc' = ExcOf(c.status)
                /\ ret' = [kind |-> "handle", addr |-> result]
                /\ eng' = [k |-> "open", alloc |-> addr]
                \* a pending exception discards the native return value
                /\ held' = [held EXCEPT ![r] = IF exc' = "none" THEN result ELSE 0]

\* NativeDecimalFormat_close: delete the instance; the caller forgets the handle
NativeDecimalFormat_close(r) ==
    /\ Idle /\ Live(r)
    /\ call' = [op |-> "close", ref |-> r]
    /\ heap' = [heap EXCEPT ![held[r]] = FreeCell]
    /\ held' = [held EXCEPT ![r] = 0]
    /\ exc' = "none" /\ ret' = [kind |-> "void"]
    /\ pos' = NoCallbacks /\ fpi' = NoCallbacks /\ eng' = NoEng

\* the address NativeDecimalFormat_cloneImpl returns: that of the copy
CloneReturnAlias(addr, copyAddr) == addr
CloneReturn(addr, copyAddr) == copyAddr

\* NativeDecimalFormat_cloneImpl: fmt->clone() copies the instance into a new
\* object (NULL when the heap is exhausted); r2 is the caller's new reference
NativeDecimalFormat_cloneImpl(r, r2) ==
    /\ Idle /\ Live(r) /\ FreshRef(r2)
    /\ call' = [op |-> "clone", ref |-> r2, from |-> r]
    /\ exc' = "none"
    /\ pos' = NoCallbacks /\ fpi' = NoCallbacks /\ eng' = NoEng
    /\ IF FreeAddrs = {}
       THEN /\ ret' = [kind |-> "handle", addr |-> 0]
            /\ UNCHANGED <<heap, held>>
       ELSE LET addr == NewAddr IN
            /\ heap' = [heap EXCEPT ![addr] = heap[held[r]]]
            /\ ret' = [kind |-> "handle", addr |-> CloneReturn(held[r], addr)]
            /\ held' = [held EXCEPT ![r2] = CloneReturn(held[r], addr)]

(* ---------------------------------------------------------------------- *)
(* Engine: symbol and attribute stores                                     *)
(* ---------------------------------------------------------------------- *)

\* unum_setSymbol: an identifier outside the table is an illegal argument;
\* otherwise the value is stored verbatim
EngineSetSymbol(inst, symbol, value) ==
    IF symbol \notin SymbolIds
    THEN [status |-> "U_ILLEGAL_ARGUMENT_ERROR", inst |-> inst]
    ELSE [status |-> "U_ZERO_ERROR",
          inst |-> [inst EXCEPT !.symbols = SymSet(inst.symbols, symbol, value)]]

NumericAttrs == {"UNUM_MAX_FRACTION_DIGITS", "UNUM_MIN_FRACTION_DIGITS", "UNUM_GROUPING_USED"}
TextAttrs == {"UNUM_POSITIVE_PREFIX", "UNUM_NEGATIVE_PREFIX"}

Min2(a, b) == IF a < b THEN a ELSE b
Max2(a, b) == IF a > b THEN a ELSE b

\* unum_setAttribute(fmt, attr, value) returns void and takes no status: an
\* identifier it does not know changes nothing and reports nothing
EngineSetAttribute(inst, attr, value) ==
    CASE attr = "UNUM_MAX_FRACTION_DIGITS" ->
            [inst EXCEPT !.rules.maxFractionDigits = Max2(0, value),
                         !.rules.minFractionDigits = Min2(@, Max2(0, value))]
      [] attr = "UNUM_MIN_FRACTION_DIGITS" ->
            [inst EXCEPT !.rules.minFractionDigits = Max2(0, value),
                         !.rules.maxFractionDigits = Max2(@, Max2(0, value))]
      [] attr = "UNUM_GROUPING_USED" ->
            [inst EXCEPT !.rules.useGrouping = (value # 0)]
      [] OTHER -> inst

\* unum_getAttribute(fmt, attr) returns an int and takes no status
EngineGetAttribute(inst, attr) ==
    CASE attr = "UNUM_MAX_FRACTION_DIGITS" -> inst.rules.maxFractionDigits
      [] attr = "UNUM_MIN_FRACTION_DIGITS" -> inst.rules.minFractionDigits
      [] attr = "UNUM_GROUPING_USED" -> IF inst.rules.useGrouping THEN 1 ELSE 0
      [] OTHER -> -1

\* unum_setTextAttribute(fmt, attr, value, len, &status)
EngineSetTextAttribute(inst, attr, value) ==
    CASE attr = "UNUM_POSITIVE_PREFIX" ->
            [status |-> "U_ZERO_ERROR", inst |-> [inst EXCEPT !.rules.positivePrefix = value]]
      [] attr = "UNUM_NEGATIVE_PREFIX" ->
            [status |-> "U_ZERO_ERROR", inst |-> [inst EXCEPT !.rules.negativePrefix = value]]
      [] OTHER -> [status |-> "U_ILLEGAL_ARGUMENT_ERROR", inst |-> inst]

\* unum_getTextAttribute(fmt, attr, result, resultLength, &status): the length
\* of the text; the text itself only when it fits in resultLength units
EngineGetTextAttribute(inst, attr, capacity) ==
    IF attr \notin TextAttrs
    THEN [status |-> "U_ILLEGAL_ARGUMENT_ERROR", count |-> -1, chars |-> <<>>]
    ELSE LET text == IF attr = "UNUM_POSITIVE_PREFIX" THEN inst.rules.positivePrefix
                     ELSE inst.rules.negativePrefix
         IN  IF Len(text) > capacity
             THEN [status |-> "U_BUFFER_OVERFLOW_ERROR", count |-> Len(text), chars |-> <<>>]
             ELSE [status |-> "U_ZERO_ERROR", count |-> Len(text), chars |-> text]

(* ---------------------------------------------------------------------- *)
(* Configuration calls                                                     *)
(* ---------------------------------------------------------------------- *)

\* effects common to calls that make no callback and return nothing
VoidCall == ret' = [kind |-> "void"] /\ pos' = NoCallbacks /\ fpi' = NoCallbacks

NativeDecimalFormat_setDecimalFormatSymbols(r, a) ==
    /\ Idle /\ Live(r)
    /\ call' = [op |-> "setDecimalFormatSymbols", ref |-> r, symbols |-> a]
    /\ heap' = [heap EXCEPT ![held[r]].symbols = makeDecimalFormatSymbols(a)]
    /\ exc' = "none" /\ VoidCall /\ eng' = NoEng
    /\ UNCHANGED held

NativeDecimalFormat_setRoundingMode(r, mode, increment) ==
    /\ Idle /\ Live(r)
    /\ call' = [op |-> "setRoundingMode", ref |-> r, mode |-> mode, increment |-> increment]
    /\ heap' = [heap EXCEPT ![held[r]].roundingMode = mode,
                            ![held[r]].roundingIncrement = increment]
    /\ exc' = "none" /\ VoidCall /\ eng' = NoEng
    /\ UNCHANGED held

NativeDecimalFormat_setSymbol(r, javaSymbol, javaValue) ==
    /\ Idle /\ Live(r)
    /\ call' = [op |-> "setSymbol", ref |-> r, symbol |-> javaSymbol, value |-> javaValue]
    /\ VoidCall /\ eng' = NoEng
    /\ UNCHANGED held
    /\ IF javaValue.null
       THEN exc' = "NullPointerException" /\ UNCHANGED heap
       ELSE LET e == EngineSetSymbol(heap[held[r]], javaSymbol, javaValue.chars)
            IN  /\ heap' = [heap EXCEPT ![held[r]] = e.inst]
                /\ exc' = ExcOf(e.status)

NativeDecimalFormat_setAttribute(r, javaAttr, value) ==
    /\ Idle /\ Live(r)
    /\ call' = [op |-> "setAttribute", ref |-> r, attr |-> javaAttr, value |-> value]
    /\ heap' = [heap EXCEPT ![held[r]] = EngineSetAttribute(heap[held[r]], javaAttr, value)]
    /\ exc' = "none" /\ VoidCall /\ eng' = [k |-> "attr", before |-> heap[held[r]]]
    /\ UNCHANGED held

NativeDecimalFormat_getAttribute(r, javaAttr) ==
    /\ Idle /\ Live(r)
    /\ call' = [op |-> "getAttribute", ref |-> r, attr |-> javaAttr]
    /\ ret' = [kind |-> "int", v |-> EngineGetAttribute(heap[held[r]], javaAttr)]
    /\ exc' = "none" /\ pos' = NoCallbacks /\ fpi' = NoCallbacks /\ eng' = [k |-> "attr", before |-> heap[held[r]]]
    /\ UNCHANGED <<heap, held>>

NativeDecimalFormat_setTextAttribute(r, javaAttr, javaValue) ==
    /\ Idle /\ Live(r)
    /\ call' = [op |-> "setTextAttribute", ref |-> r, attr |-> javaAttr, value |-> javaValue]
    /\ VoidCall /\ eng' = [k |-> "attr", before |-> heap[held[r]]]
    /\ UNCHANGED held
    /\ IF javaValue.null
       THEN exc' = "NullPointerException" /\ UNCHANGED heap
       ELSE LET e == EngineSetTextAttribute(heap[held[r]], javaAttr, javaValue.chars)
            IN  /\ heap' = [heap EXCEPT ![held[r]] = e.inst]
                /\ exc' = ExcOf(e.status)

\* first ask for the length with an empty buffer, then fetch into a buffer of
\* desiredCount + 1 units
NativeDecimalFormat_getTextAttribute(r, javaAttr) ==
    /\ Idle /\ Live(r)
    /\ call' = [op |-> "getTextAttribute", ref |-> r, attr |-> javaAttr]
    /\ pos' = NoCallbacks /\ fpi' = NoCallbacks /\ eng' = [k |-> "attr", before |-> heap[held[r]]]
    /\ UNCHANGED <<heap, held>>
    /\ LET probe == EngineGetTextAttribute(heap[held[r]], javaAttr, 0)
           final == IF probe.status = "U_BUFFER_OVERFLOW_ERROR"
                    THEN EngineGetTextAttribute(heap[held[r]], javaAttr, probe.count + 1)
                    ELSE probe
       IN  /\ exc' = ExcOf(final.status)
           /\ ret' = IF maybeThrowIcuException(final.status)
                     THEN [kind |-> "null"]
                     ELSE [kind |-> "String", chars |-> SubSeq(final.chars, 1, final.count)]

NativeDecimalFormat_applyPatternImpl(r, localized, pattern0) ==
    /\ Idle /\ Live(r)
    /\ call' = [op |-> "applyPattern", ref |-> r, localized |-> localized,
                pattern |-> pattern0]
    /\ VoidCall /\ eng' = NoEng
    /\ UNCHANGED held
    /\ IF pattern0.null
       THEN exc' = "NullPointerException" /\ UNCHANGED heap
       ELSE LET c == EngineCompile(pattern0.chars, heap[held[r]].symbols, localized)
            IN  /\ exc' = ExcOf(c.status)
                /\ heap' = IF c.status = "U_ZERO_ERROR"
                           THEN [heap EXCEPT ![held[r]].rules = c.rules]
                           ELSE heap

(* ---------------------------------------------------------------------- *)
(* Engine: parsing (Parser of the specification)                           *)
(* ---------------------------------------------------------------------- *)

\* text t holds the string s at the 0-based offset p
MatchAt(t, p, s) ==
    /\ p >= 0 /\ p + Len(s) <= Len(t)
    /\ \A i \in 1..Len(s) : t[p + i] = s[i]

\* the digit whose glyph stands at offset p of t, or -1
DigitAt(syms, t, p) ==
    LET ks == {k \in 0..9 : syms[DigitSlot(k)] # <<>> /\ MatchAt(t, p, syms[DigitSlot(k)])}
    IN  IF ks = {} THEN -1 ELSE SetMin(ks)

\* consume digit glyphs from offset p; a grouping separator is accepted (and
\* ignored) only between two digits
RECURSIVE ScanDigits(_, _, _, _, _)
ScanDigits(syms, t, p, digs, grouping) ==
    LET k == DigitAt(syms, t, p)
        g == syms["kGroupingSeparatorSymbol"]
    IN  IF k >= 0
        THEN ScanDigits(syms, t, p + Len(syms[DigitSlot(k)]), Append(digs, k), grouping)
        ELSE IF /\ grouping /\ digs # <<>> /\ g # <<>> /\ MatchAt(t, p, g)
                /\ DigitAt(syms, t, p + Len(g)) >= 0
        THEN ScanDigits(syms, t, p + Len(g), digs, grouping)
        ELSE [pos |-> p, digits |-> digs]

Finite(neg, int, frac) == [special |-> "none", neg |-> neg, int |-> int, frac |-> frac]
NaNValue == [special |-> "NaN", neg |-> FALSE, int |-> <<>>, frac |-> <<>>]
InfValue(neg) == [special |-> "Inf", neg |-> neg, int |-> <<>>, frac |-> <<>>]

RECURSIVE DigitsToInt(_)
DigitsToInt(ds) ==
    IF ds = <<>> THEN 0 ELSE 10 * DigitsToInt(SubSeq(ds, 1, Len(ds) - 1)) + ds[Len(ds)]

\* the Formattable a successful parse leaves: kLong or kInt64 for an integer
\* by magnitude, kDouble otherwise
FormattableOf(dec) ==
    [type |-> IF dec.special # "none" \/ dec.frac # <<>> THEN "kDouble"
              ELSE IF Len(dec.int) <= 9 THEN "kLong" ELSE "kInt64",
     dec |-> dec]

\* Formattable(): a long zero
EmptyFormattable == [type |-> "kLong", dec |-> Finite(FALSE, <<0>>, <<>>)]

\* DecimalFormat::parse(text, result, parsePosition) from offset p0:
\* the position's index and error index afterwards, the result, and how many
\* digits were consumed
EngineParse(inst, t, p0) ==
    LET syms   == inst.symbols
        nan    == syms["kNaNSymbol"]
        inf    == syms["kInfinitySymbol"]
        dsep   == syms["kDecimalSeparatorSymbol"]
        posP   == inst.rules.positivePrefix
        negP   == inst.rules.negativePrefix
        posM   == MatchAt(t, p0, posP)
        negM   == MatchAt(t, p0, negP)
        \* prefer the longer prefix when both match
        neg    == negM /\ (~posM \/ Len(negP) > Len(posP))
        p1     == p0 + (IF neg THEN Len(negP) ELSE Len(posP))
        ip     == ScanDigits(syms, t, p1, <<>>, inst.rules.useGrouping)
        hasFr  == dsep # <<>> /\ MatchAt(t, ip.pos, dsep)
                    /\ DigitAt(syms, t, ip.pos + Len(dsep)) >= 0
        fp     == IF hasFr THEN ScanDigits(syms, t, ip.pos + Len(dsep), <<>>, FALSE)
                  ELSE [pos |-> ip.pos, digits |-> <<>>]
        nDigs  == Len(ip.digits) + Len(fp.digits)
        ok(idx, dec, n) == [index |-> idx, errorIndex |-> -1, res |-> FormattableOf(dec),
                            digits |-> n, special |-> dec.special # "none"]
        fail(at) == [index |-> p0, errorIndex |-> at, res |-> EmptyFormattable,
                     digits |-> 0, special |-> FALSE]
    IN  IF nan # <<>> /\ MatchAt(t, p0, nan) THEN ok(p0 + Len(nan), NaNValue, 0)
        ELSE IF ~posM /\ ~negM THEN fail(p0)
        ELSE IF inf # <<>> /\ MatchAt(t, p1, inf) THEN ok(p1 + Len(inf), InfValue(neg), 0)
        ELSE IF nDigs = 0 THEN fail(p1)
        ELSE ok(fp.pos, Finite(neg, ip.digits, fp.digits), nDigs)

(* ---------------------------------------------------------------------- *)
(* parse                                                                   *)
(* ---------------------------------------------------------------------- *)

RECURSIVE StripZeros(_)
StripZeros(ds) ==
    IF Len(ds) > 1 /\ ds[1] = 0 THEN StripZeros(Tail(ds)) ELSE ds

\* Formattable::getDecimalNumber: the value as invariant characters
\* ("NaN", "Infinity", "-Infinity", or sign, digits, '.', digits)
getDecimalNumber(res) ==
    LET d == res.dec
        sign == IF d.neg THEN <<45>> ELSE <<>>
        int == StripZeros(IF d.int = <<>> THEN <<0>> ELSE d.int)
    IN  CASE d.special = "NaN" -> <<78, 97, 78>>
          [] d.special = "Inf" -> sign \o <<73, 110, 102, 105, 110, 105, 116, 121>>
          [] OTHER -> sign \o [i \in 1..Len(int) |-> 48 + int[i]]
                      \o (IF d.frac = <<>> THEN <<>>
                          ELSE <<46>> \o [i \in 1..Len(d.frac) |-> 48 + d.frac[i]])

\* strncmp(data, lit, n) == 0 for a literal of at least n characters
StrncmpEq(data, lit, n) ==
    \A i \in 1..n : (IF i <= Len(data) THEN data[i] ELSE 0) = lit[i]

\* the test that sends a parsed value back as a double
IsSpecialStringNoNegInf(data) ==
    \/ StrncmpEq(data, <<78, 97, 78>>, 3)
    \/ StrncmpEq(data, <<73, 110, 102>>, 3)
IsSpecialString(data) ==
    \/ StrncmpEq(data, <<78, 97, 78>>, 3)
    \/ StrncmpEq(data, <<73, 110, 102>>, 3)
    \/ StrncmpEq(data, <<45, 73, 110, 102>>, 4)

\* UnicodeString(value, len, kInvariant): invariant characters to UTF-16 units
InvariantToUChar(c) == IF c < 128 THEN c ELSE 65533

\* newBigDecimal(env, value, len): BigDecimal(String) of the first len chars
newBigDecimal(value, len) ==
    [kind |-> "BigDecimal", str |-> [i \in 1..len |-> InvariantToUChar(value[i])]]

\* doubleValueOf(env, res.getDouble()): the double nearest the decimal
doubleValueOf(dec) == [kind |-> "Double", d |-> dec]

\* longValueOf(env, res.getLong()) or res.getInt64()
longValueOf(dec) ==
    [kind |-> "Long", v |-> (IF dec.neg THEN -1 ELSE 1) * DigitsToInt(dec.int)]

JNull == [kind |-> "null"]

\* lines 333-355: the object returned once the engine reported success
ParseValue(res, parseBigDecimal) ==
    IF parseBigDecimal
    THEN \* getDecimalNumber succeeds for the numeric types
         IF res.type \in {"kLong", "kInt64", "kDouble"}
         THEN LET str == getDecimalNumber(res)
              IN  IF IsSpecialString(str) THEN doubleValueOf(res.dec)
                  ELSE newBigDecimal(str, Len(str))
         ELSE JNull
    ELSE CASE res.type = "kDouble" -> doubleValueOf(res.dec)
           [] res.type = "kLong" -> longValueOf(res.dec)
           [] res.type = "kInt64" -> longValueOf(res.dec)
           [] OTHER -> JNull

\* lines 326-331: what the caller's ParsePosition is told
\* (Both: a variant that reports the index as well on failure; OffByOne: a
\* variant that reports the index one too far)
ParsePositionCallsBoth(e) ==
    IF e.errorIndex = -1 THEN <<[m |-> "setIndex", v |-> e.index]>>
    ELSE <<[m |-> "setIndex", v |-> e.index], [m |-> "setErrorIndex", v |-> e.errorIndex]>>
ParsePositionCallsOffByOne(e) ==
    IF e.errorIndex = -1 THEN <<[m |-> "setIndex", v |-> e.index + 1]>>
    ELSE <<[m |-> "setErrorIndex", v |-> e.errorIndex]>>
ParsePositionCalls(e) ==
    IF e.errorIndex = -1 THEN <<[m |-> "setIndex", v |-> e.index]>>
    ELSE <<[m |-> "setErrorIndex", v |-> e.errorIndex]>>

\* NativeDecimalFormat_parse; parsePos is position.getIndex()
NativeDecimalFormat_parse(r, text, parsePos, parseBigDecimal) ==
    /\ Idle /\ Live(r)
    /\ call' = [op |-> "parse", ref |-> r, text |-> text, start |-> parsePos,
                exact |-> parseBigDecimal]
    /\ fpi' = NoCallbacks
    /\ UNCHANGED <<heap, held>>
    /\ IF text.null
       THEN /\ exc' = "NullPointerException" /\ ret' = JNull /\ pos' = NoCallbacks
            /\ eng' = [k |-> "parse", ran |-> FALSE]
       ELSE IF parsePos < 0 \/ parsePos > Len(text.chars)
       THEN /\ exc' = "none" /\ ret' = JNull /\ pos' = NoCallbacks
            /\ eng' = [k |-> "parse", ran |-> FALSE]
       ELSE \E e \in {EngineParse(heap[held[r]], text.chars, parsePos)} :
                /\ exc' = "none"
                /\ pos' = ParsePositionCalls(e)
                /\ ret' = IF e.errorIndex = -1 THEN ParseValue(e.res, parseBigDecimal)
                          ELSE JNull
                /\ eng' = [k |-> "parse", ran |-> TRUE, index |-> e.index,
                           errorIndex |-> e.errorIndex, digits |-> e.digits,
                           special |-> e.special, res |-> e.res]

(* ---------------------------------------------------------------------- *)
(* Engine: rounding and formatting (RoundingEngine, Formatter)             *)
(* ---------------------------------------------------------------------- *)

RECURSIVE Pow10(_)
Pow10(k) == IF k = 0 THEN 1 ELSE 10 * Pow10(k - 1)

RECURSIVE ToDigits(_)
ToDigits(n) == IF n < 10 THEN <<n>> ELSE Append(ToDigits(n \div 10), n % 10)

Zeros(k) == [i \in 1..k |-> 0]
PadLeft(ds, k) == IF Len(ds) >= k THEN ds ELSE Zeros(k - Len(ds)) \o ds

RECURSIVE StripTrailingZeros(_, _)
StripTrailingZeros(ds, keep) ==
    IF Len(ds) > keep /\ ds[Len(ds)] = 0
    THEN StripTrailingZeros(SubSeq(ds, 1, Len(ds) - 1), keep)
    ELSE ds

\* whether the quotient q with remainder r of unit u is rounded away from zero
RoundsUp(mode, neg, q, r, u) ==
    IF r = 0 THEN FALSE
    ELSE CASE mode = 0 -> ~neg
           [] mode = 1 -> neg
           [] mode = 2 -> FALSE
           [] mode = 3 -> TRUE
           [] mode = 4 -> 2 * r > u \/ (2 * r = u /\ q % 2 = 1)
           [] mode = 5 -> 2 * r > u
           [] mode = 6 -> 2 * r >= u
           [] OTHER -> 2 * r > u \/ (2 * r = u /\ q % 2 = 1)

\* round(exactDecimalDigits, policy): to a multiple of the increment when it
\* is nonzero, else to maxFractionDigits places; inexact tells whether digits
\* were lost
EngineRound(dec, mode, increment, maxFrac) ==
    LET L == Len(dec.frac)
        n == DigitsToInt(dec.int \o dec.frac)
        d == IF L > maxFrac THEN L - maxFrac ELSE 0
        u == IF increment > 0 THEN increment * Pow10(L) ELSE Pow10(d)
        q == n \div u
        r == n % u
        t == (IF RoundsUp(mode, dec.neg, q, r, u) THEN q + 1 ELSE q) * u
    IN  [inexact |-> r # 0,
         int |-> ToDigits(t \div Pow10(L)),
         frac |-> IF L = 0 THEN <<>> ELSE PadLeft(ToDigits(t % Pow10(L)), L)]

\* the glyphs of a digit run
RECURSIVE Glyphs(_, _)
Glyphs(syms, ds) ==
    IF ds = <<>> THEN <<>> ELSE syms[DigitSlot(ds[1])] \o Glyphs(syms, Tail(ds))

\* the integer digits as output pieces: digit groups (field 0) separated by
\* grouping separators (field 6)
RECURSIVE IntPieces(_, _, _)
IntPieces(syms, ds, g) ==
    IF g = 0 \/ Len(ds) <= g
    THEN <<[kind |-> 0, chars |-> Glyphs(syms, ds)]>>
    ELSE LET head == ((Len(ds) - 1) % g) + 1
         IN  <<[kind |-> 0, chars |-> Glyphs(syms, SubSeq(ds, 1, head))],
               [kind |-> 6, chars |-> syms["kGroupingSeparatorSymbol"]]>>
             \o IntPieces(syms, SubSeq(ds, head + 1, Len(ds)), g)

\* concatenate pieces, recording a span for every tagged, non-empty piece
RECURSIVE Assemble(_, _, _)
Assemble(pieces, text, spans) ==
    IF pieces = <<>> THEN [text |-> text, spans |-> spans]
    ELSE LET pc == pieces[1]
         IN  Assemble(Tail(pieces), text \o pc.chars,
                      IF pc.kind >= 0 /\ pc.chars # <<>>
                      THEN Append(spans, [kind |-> pc.kind, start |-> Len(text),
                                          end |-> Len(text) + Len(pc.chars)])
                      ELSE spans)

\* the prefix piece: the bare minus sign is the sign field (10), other prefix
\* text is an untagged literal (-1)
PrefixPiece(inst, neg) ==
    IF neg
    THEN [kind |-> IF inst.rules.negativePrefix = inst.symbols["kMinusSignSymbol"]
                   THEN 10 ELSE -1,
          chars |-> inst.rules.negativePrefix]
    ELSE [kind |-> -1, chars |-> inst.rules.positivePrefix]

\* format(rules, symbols, roundingPolicy, value, wantFieldSpans): [status,
\* text, spans]; exact tells an int64 or digit-string value from a double;
\* mode 7 forbids rounding an exact value
EngineFormat(inst, dec, exact, wantSpans) ==
    LET syms  == inst.symbols
        rules == inst.rules
        rd    == EngineRound(dec, inst.roundingMode, inst.roundingIncrement,
                             rules.maxFractionDigits)
        int   == PadLeft(StripZeros(rd.int), rules.minIntegerDigits)
        cut   == SubSeq(rd.frac, 1, Min2(Len(rd.frac), rules.maxFractionDigits))
        frac  == LET st == StripTrailingZeros(cut, rules.minFractionDigits)
                 IN  st \o Zeros(Max2(0, rules.minFractionDigits - Len(st)))
        pieces ==
            CASE dec.special = "NaN" -> <<[kind |-> -1, chars |-> syms["kNaNSymbol"]]>>
              [] dec.special = "Inf" ->
                    <<PrefixPiece(inst, dec.neg), [kind |-> -1, chars |-> syms["kInfinitySymbol"]]>>
              [] OTHER ->
                    <<PrefixPiece(inst, dec.neg)>>
                    \o IntPieces(syms, int,
                                 IF rules.useGrouping THEN rules.groupingSize ELSE 0)
                    \o (IF frac = <<>> THEN <<>>
                        ELSE <<[kind |-> 2, chars |-> syms["kDecimalSeparatorSymbol"]],
                               [kind |-> 1, chars |-> Glyphs(syms, frac)]>>)
        out == Assemble(pieces, <<>>, <<>>)
    IN  IF dec.special = "none" /\ exact /\ inst.roundingMode = 7 /\ rd.inexact
        THEN [status |-> "U_FORMAT_INEXACT_ERROR", text |-> <<>>, spans |-> <<>>]
        ELSE [status |-> "U_ZERO_ERROR", text |-> out.text,
              spans |-> IF wantSpans THEN out.spans ELSE <<>>]

\* a digit string as a decimal: [-]digits[.digits]
EngineDigitList(chars) ==
    LET neg  == chars # <<>> /\ chars[1] = 45
        body == IF neg THEN Tail(chars) ELSE chars
        dots == {i \in 1..Len(body) : body[i] = 46}
        dot  == IF dots = {} THEN Len(body) + 1 ELSE SetMin(dots)
        ok   == /\ Cardinality(dots) <= 1
                /\ dot > 1 /\ dot # Len(body)
                /\ \A i \in 1..Len(body) : i = dot \/ (body[i] >= 48 /\ body[i] <= 57)
    IN  IF ok
        THEN [status |-> "U_ZERO_ERROR",
              dec |-> Finite(neg, [i \in 1..(dot - 1) |-> body[i] - 48],
                             [i \in 1..(Len(body) - dot) |-> body[dot + i] - 48])]
        ELSE [status |-> "U_DECIMAL_NUMBER_SYNTAX_ERROR", dec |-> NaNValue]

\* DecimalFormat::format(value, s, fpi, status) for the three value types
EngineFormatValue(inst, value, wantSpans) ==
    CASE value.type = "int64" ->
            EngineFormat(inst, Finite(value.v < 0,
                                      ToDigits(IF value.v < 0 THEN -value.v ELSE value.v), <<>>),
                         TRUE, wantSpans)
      [] value.type = "double" -> EngineFormat(inst, value.dec, FALSE, wantSpans)
      [] OTHER ->
            LET dl == EngineDigitList(value.chars)
            IN  IF dl.status # "U_ZERO_ERROR"
                THEN [status |-> dl.status, text |-> <<>>, spans |-> <<>>]
                ELSE EngineFormat(inst, dl.dec, TRUE, wantSpans)

(* ---------------------------------------------------------------------- *)
(* format                                                                  *)
(* ---------------------------------------------------------------------- *)

\* the loop of formatResult: field, begin index and end index of every span
RECURSIVE FlattenNoEnd(_)
FlattenNoEnd(spans) ==
    IF spans = <<>> THEN <<>>
    ELSE <<spans[1].kind, spans[1].start>> \o FlattenNoEnd(Tail(spans))
RECURSIVE Flatten(_)
Flatten(spans) ==
    IF spans = <<>> THEN <<>>
    ELSE <<spans[1].kind, spans[1].start, spans[1].end>> \o Flatten(Tail(spans))

\* formatResult(env, s, fpi, javaFieldPositionIterator); oom names the JNI
\* allocation that fails in this call, if any
formatResult(s, spans, wantFpi, oom) ==
    LET data == Flatten(spans)
        chars == IF oom = "NewCharArray"
                 THEN [exc |-> "OutOfMemoryError", ret |-> JNull]
                 ELSE [exc |-> "none", ret |-> [kind |-> "chars", s |-> s]]
    IN  IF ~wantFpi
        THEN [exc |-> chars.exc, ret |-> chars.ret, fpi |-> NoCallbacks]
        ELSE IF data # <<>> /\ oom \in {"NewIntArray", "ScopedIntArrayRW"}
        THEN [exc |-> "OutOfMemoryError", ret |-> JNull, fpi |-> NoCallbacks]
        ELSE [exc |-> chars.exc, ret |-> chars.ret,
              fpi |-> <<[m |-> "setData",
                         data |-> IF data = <<>> THEN [null |-> TRUE, ints |-> <<>>]
                                  ELSE [null |-> FALSE, ints |-> data]]>>]

\* format<T>(env, addr, javaFieldPositionIterator, value), lines 260-269, given
\* the engine's outcome e
FormatOutcome(e, wantFpi, oom) ==
    IF maybeThrowIcuException(e.status)
    THEN [exc |-> e.status, ret |-> JNull, fpi |-> NoCallbacks]
    ELSE formatResult(e.text, e.spans, wantFpi, oom)

format(r, op, value, wantFpi, oom) ==
    /\ Idle /\ Live(r)
    /\ call' = [op |-> op, ref |-> r, value |-> value, wantFpi |-> wantFpi, oom |-> oom]
    /\ pos' = NoCallbacks
    /\ UNCHANGED <<heap, held>>
    /\ \E e \in {EngineFormatValue(heap[held[r]], value, wantFpi)} :
       \E o \in {FormatOutcome(e, wantFpi, oom)} :
          /\ exc' = o.exc /\ ret' = o.ret /\ fpi' = o.fpi
          /\ eng' = [k |-> "format", status |-> e.status, text |-> e.text, spans |-> e.spans]

NativeDecimalFormat_formatLong(r, value, wantFpi, oom) ==
    format(r, "formatLong", [type |-> "int64", v |-> value], wantFpi, oom)

NativeDecimalFormat_formatDouble(r, value, wantFpi, oom) ==
    format(r, "formatDouble", [type |-> "double", dec |-> value], wantFpi, oom)

NativeDecimalFormat_formatDigitList(r, value, wantFpi, oom) ==
    IF value.null
    THEN /\ Idle /\ Live(r)
         /\ call' = [op |-> "formatDigitList", ref |-> r, value |-> value,
                     wantFpi |-> wantFpi, oom |-> oom]
         /\ exc' = "NullPointerException" /\ ret' = JNull
         /\ pos' = NoCallbacks /\ fpi' = NoCallbacks
         /\ eng' = [k |-> "format", status |-> "none", text |-> <<>>, spans |-> <<>>]
         /\ UNCHANGED <<heap, held>>
    ELSE format(r, "formatDigitList", [type |-> "digits", chars |-> value.chars], wantFpi, oom)

(* ---------------------------------------------------------------------- *)
(* Lifecycle and configuration specification                               *)
(* ---------------------------------------------------------------------- *)

\* inputs of the lifecycle specification: one malformed and one well-formed
\* pattern to open with, and one input per mutator
OpenPatterns == {JStr(PatGrouped), JStr(PatMalformed), NullStr}

Next ==
    \/ ReturnToCaller
    \/ \E r \in Refs, p \in OpenPatterns : NativeDecimalFormat_open(r, p, LatinSymbols)
    \/ \E r \in Refs : NativeDecimalFormat_close(r)
    \/ \E r \in Refs, r2 \in Refs : NativeDecimalFormat_cloneImpl(r, r2)
    \/ \E r \in Refs : NativeDecimalFormat_setDecimalFormatSymbols(r, HighSymbols)
    \/ \E r \in Refs : NativeDecimalFormat_setRoundingMode(r, 2, 0)
    \/ \E r \in Refs : NativeDecimalFormat_setSymbol(r, "kOneDigitSymbol", JStr(<<88>>))
    \/ \E r \in Refs : NativeDecimalFormat_setAttribute(r, "UNUM_GROUPING_USED", 0)
    \/ \E r \in Refs : NativeDecimalFormat_setTextAttribute(r, "UNUM_POSITIVE_PREFIX", JStr(<<43>>))
    \/ \E r \in Refs : NativeDecimalFormat_applyPatternImpl(r, FALSE, JStr(PatFraction))

Spec == Init /\ [][Next]_vars

(* ---------------------------------------------------------------------- *)
(* Attribute specification: known and unknown attribute identifiers        *)
(* ---------------------------------------------------------------------- *)

AttrInputs == {"UNUM_MAX_FRACTION_DIGITS", "UNUM_MIN_FRACTION_DIGITS", "UNUM_BOGUS_ATTRIBUTE"}
AttrValues == {0, 2}
TextAttrInputs == {"UNUM_POSITIVE_PREFIX", "UNUM_BOGUS_TEXT_ATTRIBUTE"}
TextValues == {JStr(<<43>>), NullStr}

NextAttr ==
    \/ ReturnToCaller
    \/ \E r \in Refs : NativeDecimalFormat_open(r, JStr(PatFraction), LatinSymbols)
    \/ \E r \in Refs, t \in AttrInputs, v \in AttrValues :
          NativeDecimalFormat_setAttribute(r, t, v)
    \/ \E r \in Refs, t \in AttrInputs : NativeDecimalFormat_getAttribute(r, t)
    \/ \E r \in Refs, t \in TextAttrInputs, v \in TextValues :
          NativeDecimalFormat_setTextAttribute(r, t, v)
    \/ \E r \in Refs, t \in TextAttrInputs : NativeDecimalFormat_getTextAttribute(r, t)

SpecAttr == Init /\ [][NextAttr]_vars

(* ---------------------------------------------------------------------- *)
(* Symbol specification: symbol sets and single-symbol overrides           *)
(* ---------------------------------------------------------------------- *)

SymbolInputs == {"kOneDigitSymbol", "kNineDigitSymbol", "kBogusSymbol"}
SymbolValues == {JStr(<<88>>), NullStr}

NextSym ==
    \/ ReturnToCaller
    \/ \E r \in Refs, a \in SymbolArgs : NativeDecimalFormat_open(r, JStr(PatGrouped), a)
    \/ \E r \in Refs, a \in SymbolArgs : NativeDecimalFormat_setDecimalFormatSymbols(r, a)
    \/ \E r \in Refs, s \in SymbolInputs, v \in SymbolValues :
          NativeDecimalFormat_setSymbol(r, s, v)
    \/ \E r \in Refs : NativeDecimalFormat_close(r)

SpecSym == Init /\ [][NextSym]_vars

(* ---------------------------------------------------------------------- *)
(* Parse specification                                                     *)
(* ---------------------------------------------------------------------- *)

\* '1', ',', '-', 'a'
Alphabet == {49, 44, 45, 97}

RECURSIVE SeqsUpTo(_)
SeqsUpTo(n) ==
    IF n = 0 THEN {<<>>}
    ELSE LET shorter == SeqsUpTo(n - 1)
         IN  shorter \cup {Append(s, c) : s \in {x \in shorter : Len(x) = n - 1}, c \in Alphabet}

\* "123abc", "NaN", the infinity sign, minus infinity, "1.5", "1,111", and the
\* digits one and six of the symbol set that starts at U+FFFA
ExtraTexts ==
    {<<49, 50, 51, 97, 98, 99>>, <<78, 97, 78>>, <<8734>>, <<45, 8734>>, <<49, 46, 53>>,
     <<49, 44, 49, 49, 49>>, <<65531, 55296, 56320>>}

Texts == {JStr(s) : s \in SeqsUpTo(MaxLen) \cup ExtraTexts} \cup {NullStr}

\* start offsets from one before the text to one past its end
Starts(text) == IF text.null THEN {0} ELSE -1..(Len(text.chars) + 1)

NextParse ==
    \/ ReturnToCaller
    \/ \E p \in {JStr(PatGrouped), JStr(PatFraction)}, a \in SymbolArgs :
          NativeDecimalFormat_open(1, p, a)
    \/ \E text \in Texts : \E start \in Starts(text), exact \in BOOLEAN :
          NativeDecimalFormat_parse(1, text, start, exact)
    \/ NativeDecimalFormat_close(1)

SpecParse == Init /\ [][NextParse]_vars

(* ---------------------------------------------------------------------- *)
(* Format specification                                                    *)
(* ---------------------------------------------------------------------- *)

LongValues == {0, 7, -12, 1234567}
\* NaN, the infinities, 1.5, -0.25
DoubleValues ==
    {NaNValue, InfValue(FALSE), InfValue(TRUE), Finite(FALSE, <<1>>, <<5>>),
     Finite(TRUE, <<0>>, <<2, 5>>)}
\* "12.5", "-1234.125", "7", "abc", "1.2.3", and a null string
DigitStrings ==
    {JStr(<<49, 50, 46, 53>>), JStr(<<45, 49, 50, 51, 52, 46, 49, 50, 53>>), JStr(<<55>>),
     JStr(<<97, 98, 99>>), JStr(<<49, 46, 50, 46, 51>>), NullStr}
OomSites == {"none", "NewIntArray", "ScopedIntArrayRW", "NewCharArray"}
FormatPatterns == {JStr(PatGrouped), JStr(PatFraction)}
FormatRoundingModes == {4, 7}
FormatIncrements == {0, 5}

NextFormat ==
    \/ ReturnToCaller
    \/ \E p \in FormatPatterns, a \in SymbolArgs : NativeDecimalFormat_open(1, p, a)
    \/ \E m \in FormatRoundingModes, i \in FormatIncrements :
          NativeDecimalFormat_setRoundingMode(1, m, i)
    \/ \E v \in LongValues, w \in BOOLEAN, o \in OomSites :
          NativeDecimalFormat_formatLong(1, v, w, o)
    \/ \E v \in DoubleValues, w \in BOOLEAN, o \in OomSites :
          NativeDecimalFormat_formatDouble(1, v, w, o)
    \/ \E v \in DigitStrings, w \in BOOLEAN, o \in OomSites :
          NativeDecimalFormat_formatDigitList(1, v, w, o)
    \/ NativeDecimalFormat_close(1)

SpecFormat == Init /\ [][NextFormat]_vars

(* ---------------------------------------------------------------------- *)
(* Properties                                                              *)
(* ---------------------------------------------------------------------- *)

Told(m) == \E i \in DOMAIN pos : pos[i].m = m
FormatOps == {"formatLong", "formatDouble", "formatDigitList"}
AttrOps == {"setAttribute", "getAttribute", "setTextAttribute", "getTextAttribute"}
KnownAttrs == NumericAttrs \cup TextAttrs

\* C1: a parse call never tells the caller's position both an ending offset
\* and an error offset, and returns a value only when it reported no error
\* offset.
C1_NeverBoth ==
    call.op = "parse" =>
        /\ ~(Told("setIndex") /\ Told("setErrorIndex"))
        /\ (ret.kind # "null" => ~Told("setErrorIndex"))
        /\ Len(pos) <= 1

\* C1 witness: a parse that returned a value and reported only an ending offset
C1_Witness ==
    /\ call.op = "parse" /\ ret.kind = "Long"
    /\ pos = <<[m |-> "setIndex", v |-> 2]>>

\* C2 (as claimed): every parse call that returns no value (and raises
\* nothing) has reported an error offset, whatever the start offset.
C2_Original ==
    (call.op = "parse" /\ exc = "none" /\ ret.kind = "null") => Told("setErrorIndex")

C4_ExactDecimal ==
    (call.op = "parse" /\ call.exact /\ ret.kind # "null") =>
        LET d == eng.res.dec
        IN  /\ (ret.kind = "Double") <=> (d.special # "none")
            /\ ret.kind = "Double" => ret.d = d
            /\ d.special = "none" =>
                  /\ ret.kind = "BigDecimal"
                  /\ LET back == EngineDigitList(ret.str)
                     IN  /\ back.status = "U_ZERO_ERROR"
                         /\ back.dec.neg = d.neg
                         /\ StripZeros(<<0>> \o back.dec.int) = StripZeros(<<0>> \o d.int)
                         /\ back.dec.frac = d.frac

\* C4 witness: minus infinity parsed for an exact decimal came back a double
C4_Witness ==
    /\ call.op = "parse" /\ call.exact
    /\ call.text = JStr(<<45, 8734>>)
    /\ ret = [kind |-> "Double", d |-> InfValue(TRUE)]

\* C5 (as claimed): a format call that fails returns no text and delivers no
\* field spans.
C5_Original ==
    (call.op \in FormatOps /\ exc # "none") => (ret.kind = "null" /\ fpi = NoCallbacks)

\* C5 (the part that holds): a format call that fails with an error of the
\* formatter, or because its digit string is null, returns no text and
\* delivers no field spans.
C5_EngineFailureAborts ==
    (call.op \in FormatOps /\ exc \notin {"none", "OutOfMemoryError"}) =>
        (ret.kind = "null" /\ fpi = NoCallbacks)

\* C6 (as claimed): open yields exactly one of a handle or a failure; a
\* failed open returns no handle and leaves no instance allocated, and a
\* returned handle means no failure was raised.
C6_Original ==
    call.op = "open" =>
        /\ (exc # "none") # (ret.addr # 0)
        /\ exc # "none" => (ret.addr = 0 /\ eng.alloc = 0 /\ Leaked = {})

\* C7 (as claimed): an attribute call with an unknown identifier fails with
\* InvalidArgument and leaves the instance unchanged.
C7_Original ==
    (call.op \in AttrOps /\ call.attr \notin KnownAttrs) =>
        /\ exc = "U_ILLEGAL_ARGUMENT_ERROR"
        /\ heap[held[call.ref]] = eng.before

\* C8: clone returns a new handle, distinct from the original's, to an
\* instance equal to the original; and every call made through one reference
\* (close included) leaves the instance every other reference holds
\* unchanged and allocated.
C8_CloneIndependent ==
    [][/\ (call'.op = "clone" /\ ret'.addr # 0) =>
              /\ ret'.addr # held[call'.from]
              /\ held'[call'.ref] = ret'.addr
              /\ heap'[ret'.addr] = heap[held[call'.from]]
       /\ \A r \in Refs :
              (held[r] # 0 /\ call'.op # "none" /\ call'.ref # r) =>
                  /\ held'[r] = held[r]
                  /\ heap'[held[r]] = heap[held[r]]
                  /\ heap'[held[r]].live]_vars

\* C8 witness: a configured instance was cloned into a second, equal instance
C8_Witness ==
    /\ call.op = "clone" /\ ret.addr # 0
    /\ held[1] # 0 /\ held[2] # 0 /\ held[1] # held[2]
    /\ heap[held[1]] = heap[held[2]]
    /\ heap[held[1]].roundingMode = 2
    /\ heap[held[1]].symbols["kOneDigitSymbol"] = <<88>>

\* C9: a successful format call with spans requested delivers exactly one
\* array of 3n integers, the i-th triple being field, start and end of the
\* i-th span the formatter produced (no array when there are no spans); a call
\* without spans requested delivers nothing.
C9_SpansMarshalled ==
    call.op \in FormatOps =>
        /\ ~call.wantFpi => fpi = NoCallbacks
        /\ (call.wantFpi /\ ret.kind = "chars") =>
              /\ Len(fpi) = 1 /\ fpi[1].m = "setData"
              /\ LET d == fpi[1].data
                     n == Len(eng.spans)
                 IN  /\ Len(d.ints) = 3 * n
                     /\ d.null <=> (n = 0)
                     /\ \A i \in 1..n :
                           /\ d.ints[3 * i - 2] = eng.spans[i].kind
                           /\ d.ints[3 * i - 1] = eng.spans[i].start
                           /\ d.ints[3 * i] = eng.spans[i].end
              /\ ret.s = eng.text

\* C9 witness: 1234567 formatted as "1,234,567" delivered its five spans
C9_Witness ==
    /\ call.op = "formatLong" /\ call.wantFpi /\ ret.kind = "chars"
    /\ ret.s = <<49, 44, 50, 51, 52, 44, 53, 54, 55>>
    /\ Len(fpi) = 1 /\ Len(fpi[1].data.ints) = 15

\* the symbol table a symbol set a must produce, slot by slot
SuppliedOk(syms, a) ==
    /\ DOMAIN syms = SymbolIds
    /\ \A s \in SymbolIds : syms[s] \in Seq(0..65535)
    /\ syms["kCurrencySymbol"] = a.currencySymbol
    /\ syms["kDecimalSeparatorSymbol"] = <<a.decimalSeparator>>
    /\ syms["kDigitSymbol"] = <<a.digit>>
    /\ syms["kExponentialSymbol"] = a.exponentSeparator
    /\ syms["kGroupingSeparatorSymbol"] = <<a.groupingSeparator>>
    /\ syms["kMonetaryGroupingSeparatorSymbol"] = <<a.groupingSeparator>>
    /\ syms["kInfinitySymbol"] = a.infinity
    /\ syms["kIntlCurrencySymbol"] = a.internationalCurrencySymbol
    /\ syms["kMinusSignSymbol"] = a.minusSign
    /\ syms["kMonetarySeparatorSymbol"] = <<a.monetaryDecimalSeparator>>
    /\ syms["kNaNSymbol"] = a.nan
    /\ syms["kPatternSeparatorSymbol"] = <<a.patternSeparator>>
    /\ syms["kPercentSymbol"] = a.percent
    /\ syms["kPerMillSymbol"] = <<a.perMill>>

\* C10: right after open or setDecimalFormatSymbols with zero digit z every
\* slot of the instance holds a value (the supplied one where one was
\* supplied) and the glyph of digit k is the single code point z + k; a
\* setSymbol call changes no slot but the one it names, and stores its value
\* there when it succeeds.
C10_Symbols ==
    [][/\ (/\ call'.op \in {"open", "setDecimalFormatSymbols"}
           /\ exc' = "none" /\ held'[call'.ref] # 0) =>
              LET syms == heap'[held'[call'.ref]].symbols
                  z == call'.symbols.zeroDigit
              IN  /\ SuppliedOk(syms, call'.symbols)
                  /\ \A k \in 0..9 :
                        /\ OneCodePoint(syms[DigitSlot(k)])
                        /\ Char32At0(syms[DigitSlot(k)]) = z + k
       /\ call'.op = "setSymbol" =>
              LET before == heap[held[call'.ref]].symbols
                  after == heap'[held[call'.ref]].symbols
              IN  /\ \A s \in SymbolIds : s # call'.symbol => after[s] = before[s]
                  /\ exc' = "none" => after[call'.symbol] = call'.value.chars
                  /\ exc' # "none" => after = before]_vars

\* C10 witness: an instance whose digits start at U+FFFA (so that digit six
\* is U+10000) had its digit one overridden
C10_Witness ==
    /\ call.op = "setSymbol" /\ exc = "none" /\ call.symbol = "kOneDigitSymbol"
    /\ LET syms == heap[held[call.ref]].symbols
       IN  /\ syms["kOneDigitSymbol"] = <<88>>
           /\ syms["kZeroDigitSymbol"] = <<65530>>
           /\ syms["kSixDigitSymbol"] = <<55296, 56320>>

====
